---- MODULE Spec2Model ----
(***************************************************************************)
(* lsort: in-place sort of an almost-sorted, newline-delimited file.       *)
(* Model of the bidirectional revision, src/lsort.c lines 223-689.         *)
(*                                                                         *)
(* Pointers into the mapped file are byte offsets from `data` (data = 0,   *)
(* end = Len(data)); the byte at offset o of a buffer d is d[o + 1].       *)
(***************************************************************************)
EXTENDS Integers, Sequences, FiniteSets, TLC

\* ------------------------------------------------------------------ bounds
MaxLen == 6          \* longest input file, in bytes
MaxCompare == 1      \* largest --compare value tried
MaxDistance == 3     \* largest --distance value tried
MaxFiles == 2        \* times the file is named on the command line
MaxArgs == 2         \* options on the command line, when main parses them
MaxBudget == 3       \* largest compare budget tried on the comparator alone

\* --------------------------------------------------------------- constants
NL == 10             \* '\n'
SIGINT == 2
SIGTERM == 15
NULL == -1           \* the null pointer (no offset is negative)
Uninit == -2         \* an indeterminate byte of freshly allocated memory
BadPtr == -3         \* result of a read outside the mapping

Letters == {97, 98}
Bytes == Letters \cup {NL}

VARIABLES
    argv,          \* the options of the command line, before the FILEs
    data,          \* the mapped file contents
    input,         \* the file contents when the current pass mapped it
    max_compare, max_distance,
    status,        \* volatile sig_atomic_t status
    at_stop,       \* relocations completed when status was first set
    optind,        \* number of FILE arguments consumed
    pc,            \* position of main
    prev, current, next,
    line, prev_line, next_line,
    msync_begin, msync_end, new_begin, new_end,
    prev_size, current_size,
    buffer, bufsize,
    msyncs,        \* msync requests issued during the current pass
    relocations,   \* rotations completed during the current pass
    pre,           \* file contents when the rotation in flight began
    report         \* what the run has written to stderr

vars == << argv, data, input, max_compare, max_distance, status, at_stop,
           optind,
           pc,
           prev, current, next, line, prev_line, next_line,
           msync_begin, msync_end, new_begin, new_end,
           prev_size, current_size, buffer, bufsize,
           msyncs, relocations, pre, report >>

\* ----------------------------------------------------------------- helpers
At(d, o) == d[o + 1]

\* bytes [from, to) of d
Span(d, from, to) == [i \in 1..(to - from) |-> d[from + i]]

SetMin(S) == CHOOSE x \in S : \A y \in S : x <= y
SetMax(S) == CHOOSE x \in S : \A y \in S : x >= y

SeqsUpTo(S, n) == UNION {[1..k -> S] : k \in 0..n}

zmin(a, b) == IF a < b THEN a ELSE b

cmin(a, b) == IF a = NULL THEN b ELSE (IF a < b THEN a ELSE b)

cmax(a, b) == IF a = NULL THEN b ELSE (IF a > b THEN a ELSE b)

\* memchr( s, c, n ): offset of the first c in [s, s+n), or NULL
memchr(d, s, c, n) ==
    LET hits == {i \in s..(s + n - 1) : At(d, i) = c}
    IN  IF hits = {} THEN NULL ELSE SetMin(hits)

\* memrchr( s, c, n ): offset of the last c in [s, s+n), or NULL
memrchr(d, s, c, n) ==
    LET hits == {i \in s..(s + n - 1) : At(d, i) = c}
    IN  IF hits = {} THEN NULL ELSE SetMax(hits)

\* sign of memcmp( d + a, d + b, n ), bytes compared as unsigned char
memcmp(d, a, b, n) ==
    LET diff == {i \in 0..(n - 1) : At(d, a + i) # At(d, b + i)}
    IN  IF diff = {} THEN 0
        ELSE LET i == SetMin(diff)
             IN  IF At(d, a + i) < At(d, b + i) THEN -1 ELSE 1

\* le without the stripping of the right-hand delimiter
le_rhs_unstripped(d, lhs_begin, lhs_end0, rhs_begin, rhs_end0, mc) ==
    LET lhs_end == IF lhs_end0 # lhs_begin /\ At(d, lhs_end0 - 1) = NL
                   THEN lhs_end0 - 1 ELSE lhs_end0
        rhs_end == rhs_end0
        lhs_size == lhs_end - lhs_begin
        rhs_size == rhs_end - rhs_begin
        size0 == zmin(lhs_size, rhs_size)
        size == IF mc # 0 /\ size0 > mc THEN mc ELSE size0
        r == memcmp(d, lhs_begin, rhs_begin, size)
    IN  IF r # 0 THEN r < 0
        ELSE IF mc # 0 /\ size = mc THEN TRUE
        ELSE lhs_size <= rhs_size

\* le with the final size test made strict
le_strict(d, lhs_begin, lhs_end0, rhs_begin, rhs_end0, mc) ==
    LET lhs_end == IF lhs_end0 # lhs_begin /\ At(d, lhs_end0 - 1) = NL
                   THEN lhs_end0 - 1 ELSE lhs_end0
        rhs_end == IF rhs_end0 # rhs_begin /\ At(d, rhs_end0 - 1) = NL
                   THEN rhs_end0 - 1 ELSE rhs_end0
        lhs_size == lhs_end - lhs_begin
        rhs_size == rhs_end - rhs_begin
        size0 == zmin(lhs_size, rhs_size)
        size == IF mc # 0 /\ size0 > mc THEN mc ELSE size0
        r == memcmp(d, lhs_begin, rhs_begin, size)
    IN  IF r # 0 THEN r < 0
        ELSE IF mc # 0 /\ size = mc THEN TRUE
        ELSE lhs_size < rhs_size

\* lhs <= rhs
le(d, lhs_begin, lhs_end0, rhs_begin, rhs_end0, mc) ==
    LET lhs_end == IF lhs_end0 # lhs_begin /\ At(d, lhs_end0 - 1) = NL
                   THEN lhs_end0 - 1 ELSE lhs_end0
        rhs_end == IF rhs_end0 # rhs_begin /\ At(d, rhs_end0 - 1) = NL
                   THEN rhs_end0 - 1 ELSE rhs_end0
        lhs_size == lhs_end - lhs_begin
        rhs_size == rhs_end - rhs_begin
        size0 == zmin(lhs_size, rhs_size)
        size == IF mc # 0 /\ size0 > mc THEN mc ELSE size0
        r == memcmp(d, lhs_begin, rhs_begin, size)
    IN  IF r # 0 THEN r < 0
        ELSE IF mc # 0 /\ size = mc THEN TRUE
        ELSE lhs_size <= rhs_size

find(d, pos, end) ==
    LET result == memchr(d, pos, NL, end - pos)
    IN  IF result # NULL THEN result + 1 ELSE end

\* rfind searching up to and including the byte before p
rfind_Inclusive(d, p) ==
    IF p = 0 THEN BadPtr
    ELSE LET result == memrchr(d, 0, NL, p)
         IN  IF result # NULL THEN result + 1 ELSE 0

\* prev - data - 1 is a size_t: with prev = data it wraps to SIZE_MAX and
\* memrchr reads outside the mapping
rfind(d, p) ==
    IF p = 0 THEN BadPtr
    ELSE LET result == memrchr(d, 0, NL, p - 1)
         IN  IF result # NULL THEN result + 1 ELSE 0

End == Len(data)

Terminal == {"success", "aborted", "error", "crashed"}

\* ----------------------------------------------------------- command line
\* the multiplicative suffixes tried (E, P, T and G multiply further)
Suffixes == {"", "B", "K", "M"}

\* the factor a suffix stands for, lines 365-390
Factor(suf) ==
    CASE suf = "K" -> 1024
      [] suf = "M" -> 1024 * 1024
      [] OTHER -> 1

\* parse( p ) for an argument p made of the decimal number n and a suffix
parse(p) == p[1] * Factor(p[2])

NoArg == << 0, "" >>

\* the options a command line is drawn from: those of long_options and of
\* the option string "c:d:qv", and the two that only the README names
Options ==
    {[name |-> "c", arg |-> a] : a \in (0..MaxCompare) \X Suffixes}
        \cup {[name |-> "d", arg |-> a] : a \in (0..MaxDistance) \X Suffixes}
        \cup {[name |-> f, arg |-> NoArg] :
                 f \in {"q", "v", "sync", "help", "version", "reverse",
                        "immediate"}}

\* the getopt_long loop of main from option i on, lines 430-466: where main
\* goes next and the budgets it has set
RECURSIVE getopt_long(_, _, _, _)
getopt_long(args, i, mc, md) ==
    IF i > Len(args)
    THEN [pc |-> "file", max_compare |-> mc, max_distance |-> md]
    ELSE CASE args[i].name = "c" ->
                  getopt_long(args, i + 1, parse(args[i].arg), md)
           [] args[i].name = "d" ->
                  getopt_long(args, i + 1, mc, parse(args[i].arg))
           [] args[i].name \in {"q", "v", "sync"} ->
                  getopt_long(args, i + 1, mc, md)
           [] args[i].name \in {"help", "version"} ->
                  [pc |-> "info", max_compare |-> mc, max_distance |-> md]
           [] OTHER ->
                  [pc |-> "usage", max_compare |-> mc, max_distance |-> md]

\* the command line that sets the budgets c and d (0: option not given)
Given(c, d) ==
    (IF c = 0 THEN << >> ELSE << [name |-> "c", arg |-> << c, "" >>] >>)
        \o (IF d = 0 THEN << >> ELSE << [name |-> "d", arg |-> << d, "" >>] >>)

\* -------------------------------------------------------------------- Init
\* main has parsed its options and is about to open the first FILE
Init ==
    /\ data \in SeqsUpTo(Bytes, MaxLen)
    /\ input = data
    /\ argv \in {Given(c, d) : c \in 0..MaxCompare, d \in 0..MaxDistance}
    /\ max_compare = getopt_long(argv, 1, 0, 0).max_compare
    /\ max_distance = getopt_long(argv, 1, 0, 0).max_distance
    /\ status = 0
    /\ at_stop = NULL
    /\ optind = 0
    /\ pc = "file"
    /\ prev = 0 /\ current = 0 /\ next = 0
    /\ line = 0 /\ prev_line = 0 /\ next_line = 0
    /\ msync_begin = NULL /\ msync_end = NULL
    /\ new_begin = NULL /\ new_end = NULL
    /\ prev_size = 0 /\ current_size = 0
    /\ buffer = << >> /\ bufsize = 0
    /\ msyncs = << >>
    /\ relocations = 0
    /\ pre = << >>
    /\ report = "none"

\* the rest of the state, by group
Config == << argv, max_compare, max_distance >>
Signal == << status, at_stop >>
Cursors == << prev, current, next >>
Counters == << line, prev_line, next_line >>
Dirty == << msync_begin, msync_end >>
Pending == << new_begin, new_end >>
Sizes == << prev_size, current_size >>
Scratch == << buffer, bufsize >>

\* ----------------------------------------------------------------- actions
\* signal handler stop(): may run between any two steps of main
Stop ==
    /\ pc \notin Terminal
    /\ \E sig \in {SIGINT, SIGTERM} :
          /\ status # sig
          /\ status' = sig
    /\ at_stop' = (IF status = 0 THEN relocations ELSE at_stop)
    /\ UNCHANGED << argv, data, input, max_compare, max_distance, optind, pc,
                    prev, current, next, line, prev_line, next_line,
                    msync_begin, msync_end, new_begin, new_end,
                    prev_size, current_size, buffer, bufsize,
                    msyncs, relocations, pre, report >>

\* file loop: the next FILE is opened and mapped, lines 473-516
FileOpen ==
    /\ pc = "file"
    /\ status = 0 /\ optind < MaxFiles
    /\ optind' = optind + 1
    /\ input' = data
    /\ msyncs' = << >>
    /\ relocations' = 0
    /\ IF Len(data) = 0
       THEN /\ pc' = "file"
            /\ UNCHANGED << prev, current, line, msync_begin, msync_end >>
       ELSE /\ pc' = "scan"
            /\ prev' = 0
            /\ current' = find(data, 0, End)
            /\ line' = 2
            /\ msync_begin' = NULL
            /\ msync_end' = NULL
    /\ UNCHANGED << argv, data, max_compare, max_distance, Signal, next,
                    prev_line, next_line, new_begin, new_end,
                    prev_size, current_size, buffer, bufsize, pre, report >>

\* RunEnd returning success whatever the value of status
RunEnd_IgnoreStatus ==
    /\ pc = "file"
    /\ ~(status = 0 /\ optind < MaxFiles)
    /\ pc' = "success"
    /\ UNCHANGED << argv, data, input, max_compare, max_distance, Signal, optind,
                    prev, current, next, line, prev_line, next_line,
                    msync_begin, msync_end, new_begin, new_end,
                    prev_size, current_size, buffer, bufsize,
                    msyncs, relocations, pre, report >>

\* file loop guard fails, lines 473 and 680-688
RunEnd ==
    /\ pc = "file"
    /\ ~(status = 0 /\ optind < MaxFiles)
    /\ IF status # 0
       THEN pc' = "aborted" /\ report' = "ABORTED"
       ELSE pc' = "success" /\ UNCHANGED report
    /\ UNCHANGED << argv, data, input, max_compare, max_distance, Signal, optind,
                    prev, current, next, line, prev_line, next_line,
                    msync_begin, msync_end, new_begin, new_end,
                    prev_size, current_size, buffer, bufsize,
                    msyncs, relocations, pre >>

\* msync( msync_begin, msync_end - msync_begin, msync_mode ): the range
\* and the bytes of it that the request writes back
Flushed(log) ==
    Append(log, << msync_begin, msync_end,
                   Span(data, msync_begin, msync_end) >>)

\* exit_with_error, lines 671-677
ExitWithError(log, what) ==
    /\ msyncs' = (IF msync_begin # NULL THEN Flushed(log) ELSE log)
    /\ report' = what
    /\ pc' = "error"

\* ScanExit leaving the pending range unflushed
ScanExit_NoFlush ==
    /\ pc = "scan"
    /\ ~(status = 0 /\ current # End)
    /\ pc' = "file"
    /\ UNCHANGED << data, input, Config, Signal, optind, Cursors, Counters,
                    Dirty, Pending, Sizes, Scratch, msyncs, relocations, pre,
                    report >>

\* main loop guard fails, lines 518 and 659-669
ScanExit ==
    /\ pc = "scan"
    /\ ~(status = 0 /\ current # End)
    /\ msyncs' = (IF msync_begin # NULL THEN Flushed(msyncs) ELSE msyncs)
    /\ pc' = "file"
    /\ UNCHANGED << data, input, Config, Signal, optind, Cursors, Counters,
                    Dirty, Pending, Sizes, Scratch, relocations, pre,
                    report >>

\* ScanInOrder flushing the pending range without emptying it
ScanInOrder_NoReset ==
    /\ pc = "scan"
    /\ status = 0 /\ current # End
    /\ LET nxt == find(data, current, End)
       IN  /\ le(data, prev, current, current, nxt, max_compare)
           /\ next' = nxt
           /\ prev' = current
           /\ current' = nxt
    /\ IF msync_begin # NULL
       THEN /\ msyncs' = Flushed(msyncs)
            /\ UNCHANGED Dirty
       ELSE UNCHANGED << msyncs, Dirty >>
    /\ line' = line + 1
    /\ UNCHANGED << data, input, Config, Signal, optind, pc, prev_line,
                    next_line, Pending, Sizes, Scratch, relocations, pre,
                    report >>

\* line in order with its predecessor, lines 518-529 and 647-656
ScanInOrder ==
    /\ pc = "scan"
    /\ status = 0 /\ current # End
    /\ LET nxt == find(data, current, End)
       IN  /\ le(data, prev, current, current, nxt, max_compare)
           /\ next' = nxt
           /\ prev' = current
           /\ current' = nxt
    /\ IF msync_begin # NULL
       THEN /\ msyncs' = Flushed(msyncs)
            /\ msync_begin' = NULL
            /\ msync_end' = NULL
       ELSE UNCHANGED << msyncs, Dirty >>
    /\ line' = line + 1
    /\ UNCHANGED << data, input, Config, Signal, optind, pc, prev_line,
                    next_line, Pending, Sizes, Scratch, relocations, pre,
                    report >>

\* line out of order, lines 518-530
ScanOutOfOrder ==
    /\ pc = "scan"
    /\ status = 0 /\ current # End
    /\ LET nxt == find(data, current, End)
       IN  /\ ~le(data, prev, current, current, nxt, max_compare)
           /\ next' = nxt
    /\ prev_line' = line - 1
    /\ pc' = "back"
    /\ UNCHANGED << data, input, Config, Signal, optind, prev, current,
                    line, next_line, Dirty, Pending, Sizes, Scratch, msyncs,
                    relocations, pre, report >>

\* lines 553-554, reached when the backward search ends
AfterBack ==
    /\ next_line' = line
    /\ pc' = (IF prev_line + 1 = line THEN "fwd" ELSE "reloc")

\* backward search guard fails, line 531
BackExit ==
    /\ pc = "back"
    /\ ~(status = 0 /\ prev # 0)
    /\ AfterBack
    /\ UNCHANGED << data, input, Config, Signal, optind, Cursors, line,
                    prev_line, Dirty, Pending, Sizes, Scratch, msyncs,
                    relocations, pre, report >>

\* backward search distance check fails, lines 532-541
BackDistance ==
    /\ pc = "back"
    /\ status = 0 /\ prev # 0
    /\ max_distance # 0 /\ next - prev > max_distance
    /\ ExitWithError(msyncs, "distance")
    /\ UNCHANGED << data, input, Config, Signal, optind, Cursors, Counters,
                    Dirty, Pending, Sizes, Scratch, relocations, pre >>

\* BackStep without the poll of status in the loop guard
BackStep_NoPoll ==
    /\ pc = "back"
    /\ prev # 0
    /\ ~(max_distance # 0 /\ next - prev > max_distance)
    /\ LET peek == rfind(data, prev)
       IN  /\ ~le(data, peek, prev, current, next, max_compare)
           /\ prev' = peek
    /\ prev_line' = prev_line - 1
    /\ UNCHANGED << data, input, Config, Signal, optind, pc, current, next,
                    line, next_line, Dirty, Pending, Sizes, Scratch, msyncs,
                    relocations, pre, report >>

\* BackStep without the distance check before the step
BackStep_NoDistance ==
    /\ pc = "back"
    /\ status = 0 /\ prev # 0
    /\ LET peek == rfind(data, prev)
       IN  /\ ~le(data, peek, prev, current, next, max_compare)
           /\ prev' = peek
    /\ prev_line' = prev_line - 1
    /\ UNCHANGED << data, input, Config, Signal, optind, pc, current, next,
                    line, next_line, Dirty, Pending, Sizes, Scratch, msyncs,
                    relocations, pre, report >>

\* backward search steps over one more line, lines 543-547
BackStep ==
    /\ pc = "back"
    /\ status = 0 /\ prev # 0
    /\ ~(max_distance # 0 /\ next - prev > max_distance)
    /\ LET peek == rfind(data, prev)
       IN  /\ ~le(data, peek, prev, current, next, max_compare)
           /\ prev' = peek
    /\ prev_line' = prev_line - 1
    /\ UNCHANGED << data, input, Config, Signal, optind, pc, current, next,
                    line, next_line, Dirty, Pending, Sizes, Scratch, msyncs,
                    relocations, pre, report >>

\* BackBreak with the sense of the comparison inverted
BackBreak_Inverted ==
    /\ pc = "back"
    /\ status = 0 /\ prev # 0
    /\ ~(max_distance # 0 /\ next - prev > max_distance)
    /\ ~le(data, rfind(data, prev), prev, current, next, max_compare)
    /\ AfterBack
    /\ UNCHANGED << data, input, Config, Signal, optind, Cursors, line,
                    prev_line, Dirty, Pending, Sizes, Scratch, msyncs,
                    relocations, pre, report >>

\* backward search finds the in-order neighbour, lines 543-550
BackBreak ==
    /\ pc = "back"
    /\ status = 0 /\ prev # 0
    /\ ~(max_distance # 0 /\ next - prev > max_distance)
    /\ le(data, rfind(data, prev), prev, current, next, max_compare)
    /\ AfterBack
    /\ UNCHANGED << data, input, Config, Signal, optind, Cursors, line,
                    prev_line, Dirty, Pending, Sizes, Scratch, msyncs,
                    relocations, pre, report >>

\* forward probe guard fails, line 555
FwdExit ==
    /\ pc = "fwd"
    /\ ~(status = 0 /\ next # End)
    /\ pc' = "reloc"
    /\ UNCHANGED << data, input, Config, Signal, optind, Cursors, Counters,
                    Dirty, Pending, Sizes, Scratch, msyncs, relocations,
                    pre, report >>

\* forward probe distance check fails, lines 556-565
FwdDistance ==
    /\ pc = "fwd"
    /\ status = 0 /\ next # End
    /\ max_distance # 0 /\ next - prev > max_distance
    /\ ExitWithError(msyncs, "distance")
    /\ UNCHANGED << data, input, Config, Signal, optind, Cursors, Counters,
                    Dirty, Pending, Sizes, Scratch, relocations, pre >>

\* FwdStep stepping over the next line without comparing it
FwdStep_NoCompare ==
    /\ pc = "fwd"
    /\ status = 0 /\ next # End
    /\ ~(max_distance # 0 /\ next - prev > max_distance)
    /\ next' = find(data, next, End)
    /\ next_line' = next_line + 1
    /\ UNCHANGED << data, input, Config, Signal, optind, pc, prev, current,
                    line, prev_line, Dirty, Pending, Sizes, Scratch, msyncs,
                    relocations, pre, report >>

\* forward probe steps over one more line, lines 567-571
FwdStep ==
    /\ pc = "fwd"
    /\ status = 0 /\ next # End
    /\ ~(max_distance # 0 /\ next - prev > max_distance)
    /\ LET peek == find(data, next, End)
       IN  /\ ~le(data, prev, current, next, peek, max_compare)
           /\ next' = peek
    /\ next_line' = next_line + 1
    /\ UNCHANGED << data, input, Config, Signal, optind, pc, prev, current,
                    line, prev_line, Dirty, Pending, Sizes, Scratch, msyncs,
                    relocations, pre, report >>

\* forward probe finds the in-order neighbour, lines 567-574
FwdBreak ==
    /\ pc = "fwd"
    /\ status = 0 /\ next # End
    /\ ~(max_distance # 0 /\ next - prev > max_distance)
    /\ le(data, prev, current, next, find(data, next, End), max_compare)
    /\ pc' = "reloc"
    /\ UNCHANGED << data, input, Config, Signal, optind, Cursors, Counters,
                    Dirty, Pending, Sizes, Scratch, msyncs, relocations,
                    pre, report >>

\* memmove( dst, src, n ) inside the mapping
memmove(d, dst, src, n) ==
    LET top == IF dst + n > Len(d) THEN dst + n ELSE Len(d)
    IN  [i \in 1..top |-> IF i - 1 >= dst /\ i - 1 < dst + n
                          THEN d[i - dst + src] ELSE d[i]]

\* memcpy( dst, buffer, n ): scratch to mapping
CopyIn(d, dst, buf, n) ==
    LET top == IF dst + n > Len(d) THEN dst + n ELSE Len(d)
    IN  [i \in 1..top |-> IF i - 1 >= dst /\ i - 1 < dst + n
                          THEN buf[i - dst] ELSE d[i]]

\* memcpy( buffer, src, n ): mapping to scratch
CopyOut(buf, d, src, n) ==
    LET top == IF n > Len(buf) THEN n ELSE Len(buf)
    IN  [i \in 1..top |-> IF i <= n THEN d[src + i] ELSE buf[i]]

\* buffer[ i ] = b
Store(buf, i, b) ==
    LET top == IF i + 1 > Len(buf) THEN i + 1 ELSE Len(buf)
    IN  [j \in 1..top |-> IF j = i + 1 THEN b
                          ELSE IF j <= Len(buf) THEN buf[j] ELSE Uninit]

\* realloc( buffer, n ) when it succeeds: the first bufsize bytes survive
realloc(buf, old, n) ==
    [i \in 1..n |-> IF i <= old /\ i <= Len(buf) THEN buf[i] ELSE Uninit]

\* Union restarting the range at the window every time
Union_WindowOnly == [begin |-> prev, end |-> next, log |-> msyncs]

\* dirty range union and overflow flush, lines 578-588
Union ==
    LET b0 == cmin(msync_begin, prev)
        e0 == cmax(msync_end, next)
        over == max_distance # 0 /\ e0 - b0 > max_distance
    IN  [begin |-> IF over THEN prev ELSE b0,
         end |-> IF over THEN next ELSE e0,
         log |-> IF over THEN Flushed(msyncs) ELSE msyncs]

required_bufsize == zmin(current - prev, next - current + 1)

\* lines 578-606 with the scratch buffer large enough or grown
Relocate ==
    /\ pc = "reloc"
    /\ new_begin' = Union.begin
    /\ new_end' = Union.end
    /\ msyncs' = Union.log
    /\ prev_size' = current - prev
    /\ current_size' = next - current
    /\ IF bufsize < required_bufsize
       THEN /\ bufsize' = required_bufsize
            /\ buffer' = realloc(buffer, bufsize, required_bufsize)
       ELSE UNCHANGED Scratch
    /\ pre' = data
    /\ pc' = (IF next - current <= current - prev THEN "mb1" ELSE "mf1")
    /\ UNCHANGED << data, input, Config, Signal, optind, Cursors, Counters,
                    Dirty, relocations, report >>

\* lines 578-604 when realloc returns NULL
RelocateNoMem ==
    /\ pc = "reloc"
    /\ bufsize < required_bufsize
    /\ new_begin' = Union.begin
    /\ new_end' = Union.end
    /\ prev_size' = current - prev
    /\ current_size' = next - current
    /\ bufsize' = required_bufsize
    /\ buffer' = << >>
    /\ ExitWithError(Union.log, "memory")
    /\ UNCHANGED << data, input, Config, Signal, optind, Cursors, Counters,
                    Dirty, relocations, pre >>

\* the line under evaluation lacks its delimiter
NeedsDelimiter == At(data, next - 1) # NL

\* MoveBackCopy without the synthesis of the missing delimiter
MoveBackCopy_NoDelimiter ==
    /\ pc = "mb1"
    /\ buffer' = CopyOut(buffer, data, current, current_size)
    /\ pc' = "mb2"
    /\ UNCHANGED << data, input, Config, Signal, optind, Cursors, Counters,
                    Dirty, Pending, Sizes, bufsize, msyncs, relocations,
                    pre, report >>

\* move-back: copy the line out and append the delimiter, lines 607-618
MoveBackCopy ==
    /\ pc = "mb1"
    /\ LET copied == CopyOut(buffer, data, current, current_size)
       IN  IF copied[current_size] # NL
           THEN /\ buffer' = Store(copied, current_size, NL)
                /\ current_size' = current_size + 1
           ELSE /\ buffer' = copied
                /\ UNCHANGED current_size
    /\ pc' = "mb2"
    /\ UNCHANGED << data, input, Config, Signal, optind, Cursors, Counters,
                    Dirty, Pending, prev_size, bufsize, msyncs, relocations,
                    pre, report >>

\* the store of line 617 falls outside the allocation and the process dies
\* there (the other outcome, the store landing past the block, is the
\* MoveBackCopy step)
ScratchFault ==
    /\ pc = "mb1"
    /\ NeedsDelimiter
    /\ current_size >= bufsize
    /\ pc' = "crashed"
    /\ UNCHANGED << data, input, Config, Signal, optind, Cursors, Counters,
                    Dirty, Pending, Sizes, Scratch, msyncs, relocations,
                    pre, report >>

\* MoveBackShift moving the whole run, its last byte included
MoveBackShift_Whole ==
    /\ pc = "mb2"
    /\ data' = memmove(data, prev + current_size, prev, prev_size)
    /\ pc' = "mb3"
    /\ UNCHANGED << input, Config, Signal, optind, Cursors, Counters, Dirty,
                    Pending, Sizes, Scratch, msyncs, relocations, pre,
                    report >>

\* move-back: shift the run, line 619
MoveBackShift ==
    /\ pc = "mb2"
    /\ data' = memmove(data, prev + current_size, prev, prev_size - 1)
    /\ pc' = "mb3"
    /\ UNCHANGED << input, Config, Signal, optind, Cursors, Counters, Dirty,
                    Pending, Sizes, Scratch, msyncs, relocations, pre,
                    report >>

\* MoveBackWrite leaving prev and current at the offsets they had
MoveBackWrite_KeepCursors ==
    /\ pc = "mb3"
    /\ data' = CopyIn(data, prev, buffer, current_size)
    /\ UNCHANGED << prev, current >>
    /\ msync_begin' = new_begin
    /\ msync_end' = new_end
    /\ relocations' = relocations + 1
    /\ pre' = << >>
    /\ pc' = "scan"
    /\ UNCHANGED << input, Config, Signal, optind, next, Counters, Pending,
                    Sizes, Scratch, msyncs, report >>

\* move-back: write the line and reset the cursors, lines 620-623, 644-645
MoveBackWrite ==
    /\ pc = "mb3"
    /\ LET d == CopyIn(data, prev, buffer, current_size)
           cur == rfind(d, next)
       IN  /\ data' = d
           /\ current' = cur
           /\ prev' = rfind(d, cur)
    /\ msync_begin' = new_begin
    /\ msync_end' = new_end
    /\ relocations' = relocations + 1
    /\ pre' = << >>
    /\ pc' = "scan"
    /\ UNCHANGED << input, Config, Signal, optind, next, Counters, Pending,
                    Sizes, Scratch, msyncs, report >>

\* move-forward: copy the run out, lines 626-634
MoveFwdCopy ==
    /\ pc = "mf1"
    /\ buffer' = CopyOut(buffer, data, prev, prev_size)
    /\ pc' = "mf2"
    /\ UNCHANGED << data, input, Config, Signal, optind, Cursors, Counters,
                    Dirty, Pending, Sizes, bufsize, msyncs, relocations,
                    pre, report >>

\* MoveFwdShift without the synthesis of the missing delimiter
MoveFwdShift_NoDelimiter ==
    /\ pc = "mf2"
    /\ data' = memmove(data, prev, prev + prev_size, current_size)
    /\ pc' = "mf3"
    /\ UNCHANGED << input, Config, Signal, optind, Cursors, Counters, Dirty,
                    Pending, Sizes, Scratch, msyncs, relocations, pre,
                    report >>

\* move-forward: shift the line and append the delimiter, lines 635-638
MoveFwdShift ==
    /\ pc = "mf2"
    /\ LET d == memmove(data, prev, prev + prev_size, current_size)
       IN  IF At(d, prev + current_size - 1) # NL
           THEN /\ data' = [d EXCEPT ![prev + current_size + 1] = NL]
                /\ current_size' = current_size + 1
           ELSE /\ data' = d
                /\ UNCHANGED current_size
    /\ pc' = "mf3"
    /\ UNCHANGED << input, Config, Signal, optind, Cursors, Counters, Dirty,
                    Pending, prev_size, Scratch, msyncs, relocations, pre,
                    report >>

\* MoveFwdWrite writing the whole run, its last byte included
MoveFwdWrite_Whole ==
    /\ pc = "mf3"
    /\ LET d == CopyIn(data, prev + current_size, buffer, prev_size)
       IN  /\ data' = d
           /\ current' = find(d, prev, Len(d))
    /\ msync_begin' = new_begin
    /\ msync_end' = new_end
    /\ relocations' = relocations + 1
    /\ pre' = << >>
    /\ pc' = "scan"
    /\ UNCHANGED << input, Config, Signal, optind, prev, next, Counters,
                    Pending, Sizes, Scratch, msyncs, report >>

\* MoveFwdWrite writing the run at current instead of after the moved line
MoveFwdWrite_AtCurrent ==
    /\ pc = "mf3"
    /\ LET d == CopyIn(data, current, buffer, prev_size - 1)
       IN  /\ data' = d
           /\ current' = find(d, prev, Len(d))
    /\ msync_begin' = new_begin
    /\ msync_end' = new_end
    /\ relocations' = relocations + 1
    /\ pre' = << >>
    /\ pc' = "scan"
    /\ UNCHANGED << input, Config, Signal, optind, prev, next, Counters,
                    Pending, Sizes, Scratch, msyncs, report >>

\* move-forward: write the run and reset the cursor, lines 639-645
MoveFwdWrite ==
    /\ pc = "mf3"
    /\ LET d == CopyIn(data, prev + current_size, buffer, prev_size - 1)
       IN  /\ data' = d
           /\ current' = find(d, prev, Len(d))
    /\ msync_begin' = new_begin
    /\ msync_end' = new_end
    /\ relocations' = relocations + 1
    /\ pre' = << >>
    /\ pc' = "scan"
    /\ UNCHANGED << input, Config, Signal, optind, prev, next, Counters,
                    Pending, Sizes, Scratch, msyncs, report >>

Next ==
    \/ Stop \/ FileOpen \/ RunEnd
    \/ ScanExit \/ ScanInOrder \/ ScanOutOfOrder
    \/ BackExit \/ BackDistance \/ BackStep \/ BackBreak
    \/ FwdExit \/ FwdDistance \/ FwdStep \/ FwdBreak
    \/ Relocate \/ RelocateNoMem \/ ScratchFault
    \/ MoveBackCopy \/ MoveBackShift \/ MoveBackWrite
    \/ MoveFwdCopy \/ MoveFwdShift \/ MoveFwdWrite

Spec == Init /\ [][Next]_vars

\* ------------------------------------------------- reference definitions
\* the lines of d, delimiters stripped, in file order
RECURSIVE SplitFrom(_, _, _, _)
SplitFrom(d, i, cur, acc) ==
    IF i > Len(d) THEN (IF cur = << >> THEN acc ELSE Append(acc, cur))
    ELSE IF d[i] = NL THEN SplitFrom(d, i + 1, << >>, Append(acc, cur))
    ELSE SplitFrom(d, i + 1, Append(cur, d[i]), acc)

Lines(d) == SplitFrom(d, 1, << >>, << >>)

\* multiset of the lines of d
LineBag(d) ==
    LET L == Lines(d)
    IN  [c \in {L[i] : i \in DOMAIN L} |->
            Cardinality({i \in DOMAIN L : L[i] = c})]

\* a <= b, byte-wise over the whole content
LexLE(a, b) ==
    LET n == IF Len(a) < Len(b) THEN Len(a) ELSE Len(b)
        diff == {i \in 1..n : a[i] # b[i]}
    IN  IF diff = {} THEN Len(a) <= Len(b)
        ELSE a[SetMin(diff)] < b[SetMin(diff)]

\* the first k bytes of a (all of a when it is shorter)
Take(a, k) == [i \in 1..(IF Len(a) < k THEN Len(a) ELSE k) |-> a[i]]

\* a is in order before b when at most k bytes are compared (0: all)
RefLE(a, b, k) ==
    IF k = 0 THEN LexLE(a, b)
    ELSE IF Take(a, k) = Take(b, k)
         THEN (Len(a) >= k /\ Len(b) >= k) \/ Len(a) <= Len(b)
         ELSE LexLE(Take(a, k), Take(b, k))

\* every line of d is in order with its predecessor
AllInOrder(d, k) ==
    LET L == Lines(d)
    IN  \A i \in 1..(Len(L) - 1) : RefLE(L[i], L[i + 1], k)

CountNL(d) == Cardinality({i \in 1..Len(d) : d[i] = NL})

\* the scan loop of the current pass ran to the end of the buffer
PassComplete ==
    /\ optind >= 1
    /\ pc \in {"file", "success", "aborted"}
    /\ current = End

\* a rotation has written part of its window
MidRotation == pc \in {"mb3", "mf3"}

\* a relocation is being carried out on the window [prev, next)
Relocating == pc \in {"mb1", "mb2", "mb3", "mf1", "mf2", "mf3"}

\* ------------------------------------------------------------------ claims

\* C1 Ordering: with compare_budget = 0, distance_budget = 0 and no
\* cancellation, a pass that runs to the end of the buffer leaves every two
\* adjacent lines a, b (delimiter stripped) with a <= b byte-wise.
C1_Ordering ==
    (max_compare = 0 /\ max_distance = 0 /\ status = 0 /\ PassComplete)
        => AllInOrder(data, 0)

\* C2 Never corrupted: at every way the pass can end (success, cancellation
\* set at any point, DistanceExceeded, AllocationFailure), and at every
\* other point outside a rotation in flight, the multiset of lines of the
\* buffer equals the multiset of lines of the input.
C2_NeverCorrupted ==
    ~MidRotation => (data = input \/ LineBag(data) = LineBag(input))

\* C2 witness: a cancelled run that ends after a relocation changed the file
C2_Witness ==
    /\ pc = "aborted"
    /\ relocations >= 1
    /\ data # input

\* C3 Size invariance: the buffer always has the input's byte length, and
\* in a relocation the moved line and the shifted run fill the window
\* [prev, next) exactly: the line grows by one byte only when its delimiter
\* is synthesized, and the run is then written one byte shorter.
C3_SizeInvariance ==
    /\ Len(data) = Len(input)
    /\ pc \in {"mb2", "mb3", "mf3"} =>
          /\ Len(pre) = Len(input)
          /\ current_size + prev_size =
                (next - prev) + (IF At(pre, next - 1) # NL THEN 1 ELSE 0)
          /\ prev + current_size + (prev_size - 1) <= next

\* C3 witness: a pass ends after relocating a last line without delimiter
C3_Witness ==
    /\ PassComplete
    /\ relocations >= 1
    /\ At(input, Len(input) - 1) # NL
    /\ data # input

\* C4 Idempotence: a pass over the final buffer of a successful pass, with
\* the same configuration, performs zero relocations and leaves every byte
\* unchanged.
C4_Idempotence ==
    optind >= 2 => (relocations = 0 /\ ~Relocating /\ data = input)

\* C5 Distance enforcement: with a nonzero distance_budget every relocation
\* that is performed touches a window [prev, next) of at most
\* distance_budget bytes.
C5_DistanceEnforcement ==
    (max_distance # 0 /\ Relocating) => next - prev <= max_distance

\* byte size of the i-th line of d, delimiter included when it has one
LineSize(d, i) ==
    Len(Lines(d)[i]) +
        (IF i = Len(Lines(d)) /\ d[Len(d)] # NL THEN 0 ELSE 1)

\* 1-based numbers of the lines of d that are out of order with their
\* predecessor
OutOfOrder(d, k) ==
    {i \in 2..Len(Lines(d)) : ~RefLE(Lines(d)[i - 1], Lines(d)[i], k)}

\* the smallest window that puts line i of d in place: line i and the run
\* of lines right before it that are greater than it
NeededSpan(d, k, i) ==
    LET L == Lines(d)
        anchor == SetMin({j \in 1..(i - 1) :
                            \A m \in j..(i - 1) : ~RefLE(L[m], L[i], k)})
        sizes == [m \in anchor..i |-> LineSize(d, m)]
        Sum[m \in (anchor - 1)..i] ==
            IF m < anchor THEN 0 ELSE Sum[m - 1] + sizes[m]
    IN  Sum[i]

\* the pending dirty range, if any, is the last msync request issued
PendingFlushed ==
    msync_begin # NULL =>
        /\ msyncs # << >>
        /\ msyncs[Len(msyncs)][1] = msync_begin
        /\ msyncs[Len(msyncs)][2] = msync_end

\* C6 DistanceExceeded outcome: if the first out-of-order line needs a
\* relocation window longer than the nonzero distance_budget, the pass ends
\* with the fatal DistanceExceeded condition naming that line's 1-based
\* number and the buffer is byte-identical to the input.
C6_DistanceExceeded ==
    LET ooo == OutOfOrder(input, max_compare)
    IN  ( /\ optind = 1 /\ status = 0 /\ max_distance # 0
          /\ pc \in {"file", "error"} /\ report # "memory"
          /\ ooo # {}
          /\ NeededSpan(input, max_compare, SetMin(ooo)) > max_distance )
        => ( /\ pc = "error" /\ report = "distance"
             /\ line = SetMin(ooo)
             /\ data = input )

\* C7 Truncation honesty: with compare_budget = k > 0, no distance budget
\* and no cancellation, every two adjacent lines of the final buffer either
\* satisfy the full byte-wise ordering a <= b or agree on their first k
\* bytes.
C7_TruncationHonesty ==
    (max_compare > 0 /\ max_distance = 0 /\ status = 0 /\ PassComplete)
        => LET L == Lines(data)
           IN  \A i \in 1..(Len(L) - 1) :
                  \/ LexLE(L[i], L[i + 1])
                  \/ Take(L[i], max_compare) = Take(L[i + 1], max_compare)

\* C8 Trailing-delimiter synthesis: when a relocation moves the last line
\* of a buffer that lacks its trailing delimiter, the relocated line is
\* written at the window start followed by a delimiter, the new last byte
\* is not a delimiter, and the number of delimiter bytes and the total
\* length are unchanged; a buffer whose input lacked the final delimiter
\* lacks it at every point outside a rotation in flight, with the same
\* number of delimiters; input b,a without final newline gives a,b without
\* final newline.
C8_TrailingDelimiter ==
    /\ [][ ( /\ MidRotation /\ pc' = "scan"
             /\ next = Len(pre) /\ At(pre, next - 1) # NL )
           => ( /\ Span(data', prev, prev + (next - current))
                     = Span(pre, current, next)
                /\ At(data', prev + (next - current)) = NL
                /\ At(data', Len(data') - 1) # NL
                /\ CountNL(data') = CountNL(pre)
                /\ Len(data') = Len(pre) ) ]_vars
    /\ []( (~MidRotation /\ Len(input) > 0
                /\ At(input, Len(input) - 1) # NL)
              => /\ At(data, Len(data) - 1) # NL
                 /\ CountNL(data) = CountNL(input) )
    /\ []( (input = << 98, NL, 97 >> /\ optind = 1 /\ PassComplete)
              => data = << 97, NL, 98 >> )

\* C8 witness: the pass over b,a without final newline has run to the end
C8_Witness ==
    /\ input = << 98, NL, 97 >>
    /\ optind = 1
    /\ PassComplete
    /\ relocations = 1

\* C9 Already-sorted input: when every line of the input is in order with
\* its predecessor, the pass performs zero relocations, issues zero
\* flushes, leaves every byte unchanged and, unless cancelled, ends in
\* success.
C9_AlreadySorted ==
    \/ /\ relocations = 0
       /\ msyncs = << >>
       /\ data = input
       /\ pc \in {"file", "scan", "success", "aborted"}
       /\ (pc \in Terminal /\ status = 0) => pc = "success"
    \/ ~AllInOrder(input, max_compare)

\* C9 witness: a run over a sorted input of several lines ends in success
C9_Witness ==
    /\ pc = "success"
    /\ Len(Lines(input)) >= 3
    /\ AllInOrder(input, max_compare)

NoNewIteration ==
    /\ pc = "scan" => /\ pc' \in {"scan", "file"}
                      /\ UNCHANGED << prev, current, next, line >>
    /\ pc = "back" => /\ pc' \in {"back", "fwd", "reloc"}
                      /\ UNCHANGED << prev, prev_line >>
    /\ pc = "fwd" => /\ pc' \in {"fwd", "reloc"}
                     /\ UNCHANGED << next, next_line >>
    /\ pc = "mb1" => pc' \in {"mb1", "mb2", "crashed"}
    /\ pc = "mb2" => pc' \in {"mb2", "mb3"}
    /\ pc = "mb3" => pc' \in {"mb3", "scan"}
    /\ pc = "mf1" => pc' \in {"mf1", "mf2"}
    /\ pc = "mf2" => pc' \in {"mf2", "mf3"}
    /\ pc = "mf3" => pc' \in {"mf3", "scan"}

LastPassAtEnd == Len(data) = 0 \/ current = End

\* C11 Exit status and batch stop: the run returns success iff every
\* file's pass reached the end of its buffer and no cancellation was
\* observed (a file is opened only after the pass before it reached its
\* end, success is returned only after the last one did with status clear,
\* and a run that ends otherwise stopped short of an end or saw status
\* set); once status is set or the run has ended on a fatal condition, no
\* further file is opened and the file is modified no more outside the
\* relocation already under way.
C11_ExitStatusBatchStop ==
    /\ [][optind' # optind
             => /\ status = 0 /\ pc = "file"
                /\ optind = 0 \/ LastPassAtEnd]_vars
    /\ []( pc = "success"
             => /\ status = 0 /\ report = "none"
                /\ optind = MaxFiles /\ LastPassAtEnd )
    /\ []( (pc \in Terminal /\ status = 0 /\ LastPassAtEnd)
             => pc = "success" )
    /\ []( pc = "aborted" => status # 0 )
    /\ []( pc \in {"error", "crashed"} => ~LastPassAtEnd )
    /\ [][(status # 0 \/ pc \in Terminal)
             => /\ optind' = optind /\ input' = input
                /\ pc \in Terminal \cup {"file", "scan"} => data' = data]_vars

\* C11 witness: every pass of a run over several lines reached the end and
\* the run returned success
C11_Witness ==
    /\ pc = "success"
    /\ optind = MaxFiles
    /\ Len(Lines(data)) >= 2
    /\ current = End

\* ------------------------------------------------ runs without a signal
\* the steps of main alone: stop() never runs
MainStep ==
    \/ FileOpen \/ RunEnd
    \/ ScanExit \/ ScanInOrder \/ ScanOutOfOrder
    \/ BackExit \/ BackDistance \/ BackStep \/ BackBreak
    \/ FwdExit \/ FwdDistance \/ FwdStep \/ FwdBreak
    \/ Relocate \/ RelocateNoMem \/ ScratchFault
    \/ MoveBackCopy \/ MoveBackShift \/ MoveBackWrite
    \/ MoveFwdCopy \/ MoveFwdShift \/ MoveFwdWrite

\* main is a sequential program: it takes its next step as long as it has
\* one
Uninterrupted == Init /\ [][MainStep]_vars /\ WF_vars(MainStep)

RunEnds == <>(pc \in Terminal)

\* ------------------------------------------------- the options are parsed
\* main starts: the budgets hold their initializers, lines 241-242
Started ==
    /\ argv \in SeqsUpTo(Options, MaxArgs)
    /\ data = << >>
    /\ input = data
    /\ max_compare = 0
    /\ max_distance = 0
    /\ status = 0
    /\ at_stop = NULL
    /\ optind = 0
    /\ pc = "args"
    /\ prev = 0 /\ current = 0 /\ next = 0
    /\ line = 0 /\ prev_line = 0 /\ next_line = 0
    /\ msync_begin = NULL /\ msync_end = NULL
    /\ new_begin = NULL /\ new_end = NULL
    /\ prev_size = 0 /\ current_size = 0
    /\ buffer = << >> /\ bufsize = 0
    /\ msyncs = << >>
    /\ relocations = 0
    /\ pre = << >>
    /\ report = "none"

\* the option loop of main, lines 430-466: it leaves for the file loop, or
\* the process exits after --help or --version, or with a failure on an
\* option that getopt_long does not know
GetOpt ==
    /\ pc = "args"
    /\ LET got == getopt_long(argv, 1, max_compare, max_distance)
       IN  /\ pc' = got.pc
           /\ max_compare' = got.max_compare
           /\ max_distance' = got.max_distance
           /\ report' = (IF got.pc = "usage" THEN "usage" ELSE report)
    /\ UNCHANGED << argv, data, input, Signal, optind, Cursors, Counters,
                    Dirty, Pending, Sizes, Scratch, msyncs, relocations,
                    pre >>

CommandLine == Started /\ [][GetOpt]_vars

\* the command line names option f
Selected(f) == \E i \in 1..Len(argv) : argv[i].name = f

\* the default that print_help and the README state for --distance: 1M
DocumentedDistance == 1048576

\* C13 Default distance budget: when no --distance option is given, the
\* maximum shift distance in force for the pass is 1M (1048576 bytes).
C13_DefaultDistance ==
    (pc = "file" /\ ~Selected("d")) => max_distance = DocumentedDistance

\* every option of the command line but reverse is one main accepts and
\* goes on after
OthersAccepted ==
    \A i \in 1..Len(argv) :
        argv[i].name \in {"c", "d", "q", "v", "sync", "reverse"}

\* every line of d is byte-wise less than or equal to its predecessor
NonIncreasing(d) ==
    LET L == Lines(d)
    IN  \A i \in 1..(Len(L) - 1) : LexLE(L[i + 1], L[i])

\* C14 Reverse order: when reverse is selected the run goes on to its
\* passes with the comparator direction inverted, so a pass with no
\* budgets and no cancellation that runs to the end of the buffer leaves
\* every two adjacent lines in non-increasing byte-wise order.
C14_ReverseOrder ==
    (Selected("reverse") /\ OthersAccepted /\ pc # "args")
        => /\ pc # "usage"
           /\ (max_compare = 0 /\ max_distance = 0 /\ status = 0
                   /\ PassComplete) => NonIncreasing(data)

\* ------------------------------------------------- the comparator alone
\* two spans of a buffer, [prev, current) and [next, end), and a budget
Operands ==
    /\ argv = << >>
    /\ data \in SeqsUpTo(Bytes, MaxLen)
    /\ input = data
    /\ max_compare \in 0..MaxBudget
    /\ max_distance = 0
    /\ status = 0
    /\ at_stop = NULL
    /\ optind = 0
    /\ pc = "le"
    /\ prev = 0
    /\ current \in 0..Len(data)
    /\ next \in current..Len(data)
    /\ line = 0 /\ prev_line = 0 /\ next_line = 0
    /\ msync_begin = NULL /\ msync_end = NULL
    /\ new_begin = NULL /\ new_end = NULL
    /\ prev_size = 0 /\ current_size = 0
    /\ buffer = << >> /\ bufsize = 0
    /\ msyncs = << >>
    /\ relocations = 0
    /\ pre = << >>
    /\ report = "none"

\* le( prev, current, next, end ) is called and returns
Compare ==
    /\ pc = "le"
    /\ pc' = (IF le(data, prev, current, next, End, max_compare)
              THEN "le_true" ELSE "le_false")
    /\ UNCHANGED << argv, data, input, max_compare, max_distance, Signal,
                    optind, Cursors, Counters, Dirty, Pending, Sizes,
                    Scratch, msyncs, relocations, pre, report >>

Comparing == Operands /\ [][Compare]_vars

\* s without one trailing delimiter
Strip(s) ==
    IF Len(s) > 0 /\ s[Len(s)] = NL THEN SubSeq(s, 1, Len(s) - 1) ELSE s

\* the reference: lexicographic order of the first k bytes (all when k = 0)
TruncatedLE(a, b, k) ==
    IF k = 0 THEN LexLE(a, b) ELSE LexLE(Take(a, k), Take(b, k))

\* C15 Comparator: for all spans lhs, rhs and every compare budget k
\* (0: unbounded), le(lhs, rhs) equals the reference: strip one trailing
\* delimiter from each, then compare the first k bytes of each (the whole
\* content when k = 0) lexicographically as unsigned bytes, so that the
\* first differing byte decides, an equal prefix cut by the budget counts
\* as in order and otherwise a line that is a prefix of the other is not
\* greater; whether a span carries its trailing delimiter does not matter.
C15_Comparator ==
    LET lhs == Strip(Span(data, prev, current))
        rhs == Strip(Span(data, next, End))
        k == max_compare
        n == IF Len(lhs) < Len(rhs) THEN Len(lhs) ELSE Len(rhs)
        m == IF k # 0 /\ k < n THEN k ELSE n
        diff == {i \in 1..m : lhs[i] # rhs[i]}
    IN  pc \in {"le_true", "le_false"}
            => /\ (pc = "le_true") = TruncatedLE(lhs, rhs, k)
               /\ diff # {}
                     => (pc = "le_true") = (lhs[SetMin(diff)] < rhs[SetMin(diff)])
               /\ (diff = {} /\ k # 0 /\ m = k) => pc = "le_true"
               /\ (diff = {} /\ ~(k # 0 /\ m = k))
                     => (pc = "le_true") = (Len(lhs) <= Len(rhs))

\* C15 witness: a comparison cut by the budget reports in order two lines
\* that the full comparison orders the other way, the first with its
\* delimiter and the second without
C15_Witness ==
    /\ pc = "le_true"
    /\ max_compare > 0
    /\ current > 0 /\ At(data, current - 1) = NL
    /\ next < End /\ At(data, End - 1) # NL
    /\ ~LexLE(Strip(Span(data, prev, current)), Strip(Span(data, next, End)))

\* ---------------------------------------------------- the rotation alone
\* the record boundaries of d: its start, the byte after each delimiter,
\* its end
Boundaries(d) == {0, Len(d)} \cup {i \in 1..Len(d) : d[i] = NL}

\* a window [prev, next) split at current, about to be rotated one way or
\* the other with a scratch buffer that earlier relocations have grown
Windows ==
    /\ argv = << >>
    /\ data \in SeqsUpTo(Bytes, MaxLen)
    /\ input = data
    /\ max_compare = 0
    /\ max_distance = 0
    /\ status = 0
    /\ at_stop = NULL
    /\ optind = 1
    /\ pc \in {"mb1", "mf1"}
    /\ prev \in Boundaries(data)
    /\ current \in Boundaries(data)
    /\ next \in Boundaries(data)
    /\ prev < current /\ current < next
    /\ line = 0 /\ prev_line = 0 /\ next_line = 0
    /\ msync_begin = NULL /\ msync_end = NULL
    /\ new_begin = prev /\ new_end = next
    /\ prev_size = current - prev
    /\ current_size = next - current
    /\ bufsize = next - prev
    /\ buffer = [i \in 1..bufsize |-> Uninit]
    /\ msyncs = << >>
    /\ relocations = 0
    /\ pre = data
    /\ report = "none"

\* the steps of the two rotations, lines 615-623 and 634-641
RotateStep ==
    \/ MoveBackCopy \/ MoveBackShift \/ MoveBackWrite
    \/ MoveFwdCopy \/ MoveFwdShift \/ MoveFwdWrite

Rotating == Windows /\ [][RotateStep]_vars

\* the window [p, n) of d with the spans [p, c) and [c, n) exchanged, the
\* delimiter that [c, n) lacks taken from the end of [p, c)
Rotated(d, p, c, n) ==
    LET moved == Span(d, c, n)
        run == Span(d, p, c)
    IN  IF moved[Len(moved)] = NL THEN moved \o run
        ELSE moved \o << NL >> \o SubSeq(run, 1, Len(run) - 1)

\* C16 Rotation postcondition: after a relocation on the window
\* [prev, next) split at current, the window holds the old bytes of
\* [current, next), with one delimiter appended if that span did not end
\* in one, immediately followed by the old bytes of [prev, current),
\* without its final delimiter in that case; move-back and move-forward,
\* each applied to every window, yield that same content.
C16_RotationPostcondition ==
    [][(MidRotation /\ pc' = "scan")
          => Span(data', prev, next) = Rotated(pre, prev, current, next)]_vars

\* C16 witness: a move-forward has completed on a window that ends the
\* buffer without a delimiter and whose run is longer than the moved line
C16_Witness ==
    /\ pc = "scan"
    /\ relocations = 1
    /\ next = Len(input) /\ At(input, next - 1) # NL
    /\ prev_size > current_size
    /\ current = find(data, prev, End)
    /\ data # input

\* the offsets of the mapping that the memcpy, memmove or store about to
\* run reads or writes, lines 615-620 and 634-639
Footprint ==
    CASE pc = "mb1" -> current..(current + current_size - 1)
      [] pc = "mb2" ->
             prev..(prev + prev_size - 2)
                 \cup (prev + current_size)..(prev + current_size + prev_size - 2)
      [] pc = "mb3" -> prev..(prev + current_size - 1)
      [] pc = "mf1" -> prev..(prev + prev_size - 1)
      [] pc = "mf2" ->
             prev..(prev + current_size - 1)
                 \cup (prev + prev_size)..(prev + prev_size + current_size - 1)
                 \cup (IF NeedsDelimiter THEN {prev + current_size} ELSE {})
      [] pc = "mf3" ->
             (prev + current_size)..(prev + current_size + prev_size - 2)
      [] OTHER -> {}

\* C17 Rotation frame: the window [prev, next) of a relocation lies inside
\* [data, end); each memcpy, memmove and store of the relocation reads and
\* writes mapped bytes only inside the window, and every byte outside the
\* window is unchanged by it.
C17_RotationFrame ==
    /\ [](Relocating
             => /\ 0 <= prev /\ prev < next /\ next <= End
                /\ Footprint \subseteq prev..(next - 1))
    /\ [][Relocating
             => /\ Len(data') = Len(data)
                /\ \A o \in 0..(Len(data) - 1) :
                      (o < prev \/ o >= next) => At(data', o) = At(data, o)]_vars

\* C17 witness: a rotation is under way, its shift done, on a window with
\* bytes of the buffer on either side
C17_Witness ==
    /\ MidRotation
    /\ data # pre
    /\ 0 < prev /\ next < End

\* C18 Sorted-prefix invariant: at the top of every iteration of the main
\* scan loop, the lines of [data, current) are in non-decreasing
\* comparator order, after backward relocations and after forward
\* relocations alike.
C18_SortedPrefix ==
    (pc = "scan" /\ optind >= 1)
        => AllInOrder(Span(data, 0, current), max_compare)

\* the union of the pending dirty range and the window exceeds the budget
UnionOverflows ==
    /\ max_distance # 0
    /\ cmax(msync_end, next) - cmin(msync_begin, prev) > max_distance

\* C19 Flush batch bound: with a nonzero distance_budget the pending dirty
\* range never spans more than distance_budget bytes and no flush request
\* covers more than the budget; when the union of the pending range and
\* the new window would exceed it, the old range is flushed first and the
\* range restarts at the new window.
C19_FlushBatchBound ==
    /\ []( max_distance # 0
             => /\ msync_begin # NULL
                      => msync_end - msync_begin <= max_distance
                /\ \A i \in 1..Len(msyncs) :
                      msyncs[i][2] - msyncs[i][1] <= max_distance )
    /\ [][(pc = "reloc" /\ pc' # pc /\ msync_begin # NULL /\ UnionOverflows)
             => /\ Len(msyncs') > Len(msyncs)
                /\ msyncs'[Len(msyncs) + 1][1] = msync_begin
                /\ msyncs'[Len(msyncs) + 1][2] = msync_end
                /\ new_begin' = prev /\ new_end' = next]_vars

\* the byte at offset o as the file holds it: as the last msync request
\* that covered o wrote it back, or as it was when the file was mapped
Durable(o) ==
    LET hits == {i \in 1..Len(msyncs) :
                    msyncs[i][1] <= o /\ o < msyncs[i][2]}
        last == msyncs[SetMax(hits)]
    IN  IF hits = {} THEN At(input, o) ELSE last[3][o - last[1] + 1]

\* the pending dirty range: msync_begin, msync_end, and during a
\* relocation the range already extended with its window, new_begin,
\* new_end
DirtyBegin == IF Relocating THEN new_begin ELSE msync_begin

DirtyEnd == IF Relocating THEN new_end ELSE msync_end

\* C20 Dirty-range coverage: at every point of the pass, every buffer byte
\* that differs from its value at the last flush of that byte lies inside
\* the pending dirty range; each relocation extends the range to the min
\* of begins and the max of ends with its window (the range being empty
\* after a flush) and commits it when the rotation is done.
C20_DirtyRangeCoverage ==
    /\ [](\A o \in 0..(Len(data) - 1) :
              At(data, o) # Durable(o)
                  => /\ DirtyBegin # NULL
                     /\ DirtyBegin <= o /\ o < DirtyEnd)
    /\ [][(pc = "reloc" /\ pc' \in {"mb1", "mf1"})
             => LET flushed == Len(msyncs') > Len(msyncs)
                    begin == IF flushed THEN NULL ELSE msync_begin
                    end == IF flushed THEN NULL ELSE msync_end
                IN  /\ new_begin' = (IF begin = NULL \/ prev < begin
                                     THEN prev ELSE begin)
                    /\ new_end' = (IF end = NULL \/ next > end
                                   THEN next ELSE end)]_vars
    /\ [][(MidRotation /\ pc' = "scan")
             => /\ msync_begin' = new_begin /\ msync_end' = new_end
                /\ msync_begin' <= prev /\ next <= msync_end']_vars

\* C20 witness: a second relocation has extended a range that the first
\* left pending, and bytes outside its own window still differ from the
\* file
C20_Witness ==
    /\ pc = "scan"
    /\ relocations >= 2
    /\ msyncs = << >>
    /\ \E o \in 0..(Len(data) - 1) :
          /\ At(data, o) # At(input, o)
          /\ (o < prev \/ o >= next)

\* the scan loop is at its head with a line to examine, and that line is
\* in order with its predecessor
FoundInOrder ==
    /\ pc = "scan"
    /\ status = 0 /\ current # End
    /\ TruncatedLE(Strip(Span(data, prev, current)),
                   Strip(Span(data, current, find(data, current, End))),
                   max_compare)

\* C21 Flush at the in-order boundary: whenever the scan finds a line in
\* order while a dirty range is pending, exactly one flush of exactly that
\* range is issued and the range is empty when the cursors advance; when
\* no range is pending, an in-order line causes no flush.
C21_FlushInOrder ==
    [][(FoundInOrder /\ status' = status)
          => /\ prev' = current /\ current' = find(data, current, End)
             /\ msync_begin' = NULL /\ msync_end' = NULL
             /\ IF msync_begin # NULL
                THEN msyncs' = Append(msyncs,
                                      << msync_begin, msync_end,
                                         Span(data, msync_begin, msync_end) >>)
                ELSE msyncs' = msyncs]_vars

\* C21 witness: the scan has flushed the range of a relocation at an
\* in-order line and gone on with no range pending
C21_Witness ==
    /\ pc = "scan"
    /\ status = 0
    /\ relocations >= 1
    /\ msync_begin = NULL
    /\ Len(msyncs) = 1
    /\ prev # 0

\* the pass is over and the mapping is released or about to be: munmap of
\* line 665, or exit from exit_with_error
Teardown ==
    \/ pc = "file" /\ optind >= 1
    \/ pc \in {"success", "aborted", "error"}

\* C22 Flush on every exit path: however the pass ends (end of buffer,
\* cancellation, distance exceeded, allocation failure), a pending dirty
\* range has been flushed when the buffer is released, and no byte of the
\* buffer differs from what the file holds.
C22_FlushOnExit ==
    Teardown =>
        /\ PendingFlushed
        /\ \A o \in 0..(Len(data) - 1) : At(data, o) = Durable(o)

\* C22 witness: a pass ends in an allocation failure while the range of
\* an earlier relocation is pending
C22_Witness ==
    /\ pc = "error"
    /\ report = "memory"
    /\ relocations >= 1
    /\ data # input
    /\ msync_begin # NULL

\* the offsets of d at which a line starts: its start and the byte after
\* each delimiter that is not its last byte
LineStarts(d) == {0} \cup {i \in 1..(Len(d) - 1) : d[i] = NL}

\* C23 Cursor invariant: at the top of every iteration of the main loop
\* prev and current are record boundaries with data <= prev < current <=
\* end, and prev is the start of the line immediately before current; this
\* holds again after every relocation.
C23_CursorInvariant ==
    pc = "scan" =>
        /\ 0 <= prev /\ prev < current /\ current <= End
        /\ prev \in LineStarts(data)
        /\ current \in LineStarts(data) \cup {End}
        /\ prev = SetMax({b \in LineStarts(data) : b < current})

\* C23 witness: the loop is at its top after a relocation, with the
\* cursors inside the buffer
C23_Witness ==
    /\ pc = "scan"
    /\ status = 0
    /\ relocations >= 1
    /\ prev > 0
    /\ current < End

\* the 1-based number of the line that starts at offset o of d
LineNumber(d, o) == 1 + CountNL(Span(d, 0, o))

\* C24 Line-number invariant: at the top of every iteration of the main
\* loop line is the 1-based number of the line that starts at current, so
\* the line number of an error report is the true one, also after
\* relocations.
C24_LineNumber ==
    /\ (pc = "scan" /\ current # End) => line = LineNumber(data, current)
    /\ pc = "error" => line = LineNumber(data, current)

\* the line [a1, a2) of the buffer is in order before the line [b1, b2)
InOrder(a1, a2, b1, b2) ==
    TruncatedLE(Strip(Span(data, a1, a2)), Strip(Span(data, b1, b2)),
                max_compare)

\* the start of the line that ends at offset o > 0, and the end of the
\* line that starts at offset o < End
LineBefore(o) == SetMax({b \in LineStarts(data) : b < o})

LineAfter(o) == SetMin({b \in LineStarts(data) \cup {End} : b > o})

\* C25 Search postcondition: when the backward search ends without
\* cancellation or fatal error, the anchor is the buffer start or the line
\* before the anchor is <= the current line; the forward probe runs only
\* if the backward search moved the anchor by zero lines, and when it ends
\* without cancellation or fatal error, next is the buffer end or the
\* anchor line is <= the line that starts at next.
C25_SearchPostcondition ==
    /\ [][(pc = "back" /\ status = 0 /\ pc' \in {"fwd", "reloc"})
             => /\ prev = 0 \/ InOrder(LineBefore(prev), prev, current, next)
                /\ pc' = "fwd" => prev = LineBefore(current)]_vars
    /\ [][(pc = "fwd" /\ status = 0 /\ pc' = "reloc")
             => next = End \/ InOrder(prev, current, next, LineAfter(next))]_vars

\* C25 witness: the backward search has stepped over at least one line
\* and stopped inside the buffer at a line in order with the current one
C25_Witness ==
    /\ pc = "reloc"
    /\ status = 0
    /\ prev > 0
    /\ prev < LineBefore(current)
    /\ InOrder(LineBefore(prev), prev, current, next)

\* the number of pairs of lines of d that stand out of order
Inversions(d) ==
    LET L == Lines(d)
    IN  Cardinality({p \in (DOMAIN L) \X (DOMAIN L) :
                        /\ p[1] < p[2]
                        /\ ~TruncatedLE(L[p[1]], L[p[2]], max_compare)})

\* every line of the run [prev, current) is strictly greater than every
\* line of [current, next)
WindowOutOfOrder ==
    LET X == Lines(Span(data, prev, current))
        Y == Lines(Span(data, current, next))
    IN  \A i \in DOMAIN X : \A j \in DOMAIN Y :
            ~TruncatedLE(X[i], Y[j], max_compare)

\* C26 Only out-of-order pairs are exchanged: at every relocation every
\* line of [prev, current) is strictly greater than every line of
\* [current, next) under the comparator, and each relocation strictly
\* lowers the number of out-of-order pairs of lines of the buffer.
C26_OnlyOutOfOrderExchanged ==
    /\ [](pc \in {"mb1", "mf1"} => WindowOutOfOrder)
    /\ [][(MidRotation /\ pc' = "scan")
             => Inversions(data') < Inversions(pre)]_vars

\* C26 witness: a relocation is about to exchange one line with a run of
\* two or more lines
C26_Witness ==
    /\ pc \in {"mb1", "mf1"}
    /\ Len(Lines(Span(data, prev, next))) >= 3
    /\ WindowOutOfOrder

\* the searches for the window [prev, next) ran to their ends: backward to
\* the buffer start or an in-order neighbour and, where the forward probe
\* applies, forward to the buffer end or an in-order neighbour
WindowComplete ==
    /\ prev = 0
          \/ InOrder(LineBefore(prev), prev, current, LineAfter(current))
    /\ prev = LineBefore(current)
          => next = End \/ InOrder(prev, current, next, LineAfter(next))

\* C27 No relocation from an interrupted search: a relocation is carried
\* out only with a window whose search ended by finding an in-order
\* neighbour or by reaching the buffer start or end; when the backward
\* search or the forward probe finds the cancellation flag set, no
\* relocation follows and the buffer is not modified again.
C27_NoRelocationAfterInterrupt ==
    /\ [][(pc = "reloc" /\ pc' \in {"mb1", "mf1"}) => WindowComplete]_vars
    /\ [][(pc \in {"back", "fwd"} /\ status # 0) => pc' # "reloc"]_vars
    /\ [][(status # 0 /\ ~Relocating) => data' = data]_vars

\* C28 Scratch bounds: every byte written into the scratch buffer during a
\* relocation, the synthesized delimiter included, lies at an index below
\* bufsize (no store extends the buffer past its allocation or faults),
\* and bufsize never decreases.
C28_ScratchBounds ==
    /\ [](Len(buffer) <= bufsize /\ pc # "crashed")
    /\ [][bufsize' >= bufsize]_vars

\* the window [prev, next) is longer than a nonzero max_distance
Exceeds == max_distance # 0 /\ next - prev > max_distance

\* a search loop is about to run one more iteration: its guard holds
SearchIterates ==
    /\ status = 0
    /\ \/ pc = "back" /\ prev # 0
       \/ pc = "fwd" /\ next # End

\* C29 Distance check before each step: with a nonzero distance budget the
\* backward search and the forward probe compare next - anchor with the
\* budget before every step and never step, or end the search, from a
\* window that already exceeds it: the iteration ends the pass with the
\* distance error, and no byte of the buffer has been moved for this
\* window.
C29_DistanceBeforeStep ==
    [][(SearchIterates /\ Exceeds /\ status' = status)
          => /\ pc' = "error" /\ report' = "distance"
             /\ UNCHANGED << data, prev, current, next, relocations >>]_vars

\* C29 witness: the backward search has stepped over a line, found the
\* window grown past the budget before the next step and ended the pass
C29_Witness ==
    /\ pc = "error"
    /\ report = "distance"
    /\ Exceeds
    /\ prev # 0
    /\ prev < LineBefore(current)

\* ------------------------------------------------------- verbose runs
MaxVerboseLen == 7

\* int verbose, set by -v / --verbose
verbose == Selected("v")

\* main has parsed a command line with -v and is about to open the first
\* FILE
VerboseStart ==
    /\ data \in SeqsUpTo(Bytes, MaxVerboseLen)
    /\ input = data
    /\ argv \in {<< [name |-> "v", arg |-> NoArg] >> \o Given(c, d) :
                     c \in 0..MaxCompare, d \in 0..MaxDistance}
    /\ max_compare = getopt_long(argv, 1, 0, 0).max_compare
    /\ max_distance = getopt_long(argv, 1, 0, 0).max_distance
    /\ status = 0
    /\ at_stop = NULL
    /\ optind = 0
    /\ pc = "file"
    /\ prev = 0 /\ current = 0 /\ next = 0
    /\ line = 0 /\ prev_line = 0 /\ next_line = 0
    /\ msync_begin = NULL /\ msync_end = NULL
    /\ new_begin = NULL /\ new_end = NULL
    /\ prev_size = 0 /\ current_size = 0
    /\ buffer = << >> /\ bufsize = 0
    /\ msyncs = << >>
    /\ relocations = 0
    /\ pre = << >>
    /\ report = "none"

\* a run with -v that no signal interrupts
Verbose == VerboseStart /\ [][MainStep]_vars

\* the relocation event of the rotation under way, as lines 608 and 627
\* print it: direction, from-line, to-line
MovedEvent ==
    IF pc \in {"mb1", "mb2", "mb3"}
    THEN [direction |-> "back", from |-> line, to |-> prev_line]
    ELSE [direction |-> "forward", from |-> prev_line, to |-> next_line]

\* C30 Relocation events: with verbose on, the one event of a relocation,
\* 'line F moved back to line T' or 'line F moved forward to line T', is
\* such that the F-th line of the buffer before the relocation is the T-th
\* line of the buffer after it, with T < F for back and T > F for forward.
C30_RelocationEvents ==
    [][(verbose /\ MidRotation /\ pc' = "scan")
          => LET e == MovedEvent
                 before == Lines(pre)
                 after == Lines(data')
             IN  /\ e.from \in DOMAIN before
                 /\ e.to \in DOMAIN after
                 /\ before[e.from] = after[e.to]
                 /\ IF e.direction = "back" THEN e.to < e.from
                    ELSE e.to > e.from]_vars

\* --------------------------------------------- the backward-only revision
\* The earlier revision of main, run on the input the pass of the present
\* revision just ended on.  Its mapping is held in pre, its locals in the
\* variables of the same names; ge, find and rfind of that revision are
\* le, find and rfind byte for byte.
BackwardEnd == Len(pre)

\* msync( msync_begin, msync_end - msync_begin, MS_ASYNC ) on its mapping
BackwardFlushed(log) ==
    Append(log, << msync_begin, msync_end,
                   Span(pre, msync_begin, msync_end) >>)

\* the file is mapped and the pass set up
BackwardOpen ==
    /\ pc = "file"
    /\ optind >= 1 /\ status = 0
    /\ Len(input) # 0
    /\ pre' = input
    /\ prev' = 0
    /\ current' = find(input, 0, Len(input))
    /\ line' = 2
    /\ buffer' = << >>
    /\ bufsize' = 0
    /\ msync_begin' = NULL
    /\ msync_end' = NULL
    /\ msyncs' = << >>
    /\ pc' = "b_scan"
    /\ UNCHANGED << data, input, Config, Signal, optind, next, prev_line,
                    next_line, Pending, Sizes, relocations, report >>

\* main loop guard fails: last flush, munmap
BackwardScanExit ==
    /\ pc = "b_scan"
    /\ ~(status = 0 /\ current # BackwardEnd)
    /\ msyncs' = (IF msync_begin # NULL THEN BackwardFlushed(msyncs)
                  ELSE msyncs)
    /\ pc' = "b_done"
    /\ UNCHANGED << data, input, Config, Signal, optind, Cursors, Counters,
                    Dirty, Pending, Sizes, Scratch, relocations, pre,
                    report >>

\* line in order with its predecessor
BackwardScanInOrder ==
    /\ pc = "b_scan"
    /\ status = 0 /\ current # BackwardEnd
    /\ LET nxt == find(pre, current, BackwardEnd)
       IN  /\ le(pre, prev, current, current, nxt, max_compare)
           /\ next' = nxt
           /\ prev' = current
           /\ current' = nxt
    /\ IF msync_begin # NULL
       THEN /\ msyncs' = BackwardFlushed(msyncs)
            /\ msync_begin' = NULL
            /\ msync_end' = NULL
       ELSE UNCHANGED << msyncs, Dirty >>
    /\ line' = line + 1
    /\ UNCHANGED << data, input, Config, Signal, optind, pc, prev_line,
                    next_line, Pending, Sizes, Scratch, relocations, pre,
                    report >>

\* line out of order
BackwardScanOutOfOrder ==
    /\ pc = "b_scan"
    /\ status = 0 /\ current # BackwardEnd
    /\ LET nxt == find(pre, current, BackwardEnd)
       IN  /\ ~le(pre, prev, current, current, nxt, max_compare)
           /\ next' = nxt
    /\ pc' = "b_back"
    /\ UNCHANGED << data, input, Config, Signal, optind, prev, current,
                    Counters, Dirty, Pending, Sizes, Scratch, msyncs,
                    relocations, pre, report >>

\* backward search guard fails
BackwardSearchExit ==
    /\ pc = "b_back"
    /\ ~(status = 0 /\ prev # 0)
    /\ pc' = "b_reloc"
    /\ UNCHANGED << data, input, Config, Signal, optind, Cursors, Counters,
                    Dirty, Pending, Sizes, Scratch, msyncs, relocations,
                    pre, report >>

\* distance check fails: munmap, close, exit with no flush
BackwardSearchDistance ==
    /\ pc = "b_back"
    /\ status = 0 /\ prev # 0
    /\ max_distance # 0 /\ next - prev > max_distance
    /\ report' = "distance"
    /\ pc' = "error"
    /\ UNCHANGED << data, input, Config, Signal, optind, Cursors, Counters,
                    Dirty, Pending, Sizes, Scratch, msyncs, relocations,
                    pre >>

\* backward search steps over one more line
BackwardSearchStep ==
    /\ pc = "b_back"
    /\ status = 0 /\ prev # 0
    /\ ~(max_distance # 0 /\ next - prev > max_distance)
    /\ LET peek == rfind(pre, prev)
       IN  /\ ~le(pre, peek, prev, current, next, max_compare)
           /\ prev' = peek
    /\ UNCHANGED << data, input, Config, Signal, optind, pc, current, next,
                    Counters, Dirty, Pending, Sizes, Scratch, msyncs,
                    relocations, pre, report >>

\* backward search finds the in-order neighbour
BackwardSearchBreak ==
    /\ pc = "b_back"
    /\ status = 0 /\ prev # 0
    /\ ~(max_distance # 0 /\ next - prev > max_distance)
    /\ le(pre, rfind(pre, prev), prev, current, next, max_compare)
    /\ pc' = "b_reloc"
    /\ UNCHANGED << data, input, Config, Signal, optind, Cursors, Counters,
                    Dirty, Pending, Sizes, Scratch, msyncs, relocations,
                    pre, report >>

\* dirty range union and overflow flush
BackwardUnion ==
    LET b0 == cmin(msync_begin, prev)
        e0 == cmax(msync_end, next)
        over == max_distance # 0 /\ e0 - b0 > max_distance
    IN  [begin |-> IF over THEN prev ELSE b0,
         end |-> IF over THEN next ELSE e0,
         log |-> IF over THEN BackwardFlushed(msyncs) ELSE msyncs]

\* dirty range and scratch buffer of current_size + 1 bytes
BackwardRelocate ==
    /\ pc = "b_reloc"
    /\ new_begin' = BackwardUnion.begin
    /\ new_end' = BackwardUnion.end
    /\ msyncs' = BackwardUnion.log
    /\ current_size' = next - current
    /\ IF bufsize < next - current + 1
       THEN /\ bufsize' = next - current + 1
            /\ buffer' = realloc(buffer, bufsize, next - current + 1)
       ELSE UNCHANGED Scratch
    /\ pc' = "b_mb1"
    /\ UNCHANGED << data, input, Config, Signal, optind, Cursors, Counters,
                    Dirty, prev_size, relocations, pre, report >>

\* realloc returns NULL: munmap, close, exit with no flush
BackwardRelocateNoMem ==
    /\ pc = "b_reloc"
    /\ bufsize < next - current + 1
    /\ new_begin' = BackwardUnion.begin
    /\ new_end' = BackwardUnion.end
    /\ msyncs' = BackwardUnion.log
    /\ current_size' = next - current
    /\ bufsize' = next - current + 1
    /\ buffer' = << >>
    /\ report' = "memory"
    /\ pc' = "error"
    /\ UNCHANGED << data, input, Config, Signal, optind, Cursors, Counters,
                    Dirty, prev_size, relocations, pre >>

\* copy the line out and append the delimiter
BackwardCopy ==
    /\ pc = "b_mb1"
    /\ LET copied == CopyOut(buffer, pre, current, current_size)
       IN  IF copied[current_size] # NL
           THEN /\ buffer' = Store(copied, current_size, NL)
                /\ current_size' = current_size + 1
           ELSE /\ buffer' = copied
                /\ UNCHANGED current_size
    /\ pc' = "b_mb2"
    /\ UNCHANGED << data, input, Config, Signal, optind, Cursors, Counters,
                    Dirty, Pending, prev_size, bufsize, msyncs, relocations,
                    pre, report >>

\* shift the run up
BackwardShift ==
    /\ pc = "b_mb2"
    /\ pre' = memmove(pre, prev + current_size, prev, current - prev - 1)
    /\ pc' = "b_mb3"
    /\ UNCHANGED << data, input, Config, Signal, optind, Cursors, Counters,
                    Dirty, Pending, Sizes, Scratch, msyncs, relocations,
                    report >>

\* write the line, commit the range, go on with the line after the window
BackwardWrite ==
    /\ pc = "b_mb3"
    /\ LET d == CopyIn(pre, prev, buffer, current_size)
       IN  /\ pre' = d
           /\ prev' = rfind(d, next)
    /\ current' = next
    /\ line' = line + 1
    /\ msync_begin' = new_begin
    /\ msync_end' = new_end
    /\ pc' = "b_scan"
    /\ UNCHANGED << data, input, Config, Signal, optind, next, prev_line,
                    next_line, Pending, Sizes, Scratch, msyncs, relocations,
                    report >>

BackwardStep ==
    \/ BackwardOpen
    \/ BackwardScanExit \/ BackwardScanInOrder \/ BackwardScanOutOfOrder
    \/ BackwardSearchExit \/ BackwardSearchDistance
    \/ BackwardSearchStep \/ BackwardSearchBreak
    \/ BackwardRelocate \/ BackwardRelocateNoMem
    \/ BackwardCopy \/ BackwardShift \/ BackwardWrite

\* both revisions, never interrupted: after each pass of the present
\* revision the backward-only revision may be run on the same input
RevisionsStep == MainStep \/ BackwardStep

Revisions == Init /\ [][RevisionsStep]_vars

\* C31 Revision equivalence: for every input, with no budgets and no
\* cancellation, the pass of the bidirectional revision and the pass of the
\* backward-only revision end with byte-identical buffers.
C31_RevisionEquivalence ==
    (pc = "b_done" /\ max_compare = 0 /\ max_distance = 0 /\ status = 0)
        => pre = data

\* --------------------------------------------------- the locators alone
\* a buffer and a position in it: find is called with any position up to
\* end, rfind with a position after data, as every call of main does
Positions ==
    /\ argv = << >>
    /\ data \in SeqsUpTo(Bytes, MaxLen)
    /\ input = data
    /\ max_compare = 0
    /\ max_distance = 0
    /\ status = 0
    /\ at_stop = NULL
    /\ optind = 0
    /\ pc \in {"find", "rfind"}
    /\ prev = 0
    /\ current \in 0..Len(data)
    /\ pc = "rfind" => current > 0
    /\ next = 0
    /\ line = 0 /\ prev_line = 0 /\ next_line = 0
    /\ msync_begin = NULL /\ msync_end = NULL
    /\ new_begin = NULL /\ new_end = NULL
    /\ prev_size = 0 /\ current_size = 0
    /\ buffer = << >> /\ bufsize = 0
    /\ msyncs = << >>
    /\ relocations = 0
    /\ pre = << >>
    /\ report = "none"

\* next = find( current, end )
Find ==
    /\ pc = "find"
    /\ next' = find(data, current, End)
    /\ pc' = "find_done"
    /\ UNCHANGED << argv, data, input, max_compare, max_distance, Signal,
                    optind, prev, current, Counters, Dirty, Pending, Sizes,
                    Scratch, msyncs, relocations, pre, report >>

\* next = rfind( data, current )
RFind ==
    /\ pc = "rfind"
    /\ next' = rfind(data, current)
    /\ pc' = "rfind_done"
    /\ UNCHANGED << argv, data, input, max_compare, max_distance, Signal,
                    optind, prev, current, Counters, Dirty, Pending, Sizes,
                    Scratch, msyncs, relocations, pre, report >>

Locate == Find \/ RFind

Locating == Positions /\ [][Locate]_vars

\* the offsets the call may read: memchr( pos, '\n', end - pos ) those of
\* [pos, end), memrchr( data, '\n', pos - data - 1 ) those of [data, pos - 1)
Reads ==
    IF pc \in {"find", "find_done"} THEN current..(End - 1)
    ELSE 0..(current - 2)

\* the record boundaries of the buffer: data and the byte after each
\* delimiter
RecordBoundaries == {0} \cup {i \in 1..Len(data) : data[i] = NL}

\* C32 Line Locator: find(pos, end) returns the offset just past the first
\* delimiter at or after pos, or end if there is none; rfind(data, pos)
\* with data < pos returns the greatest record boundary strictly before
\* pos; both results lie in [data, end] and neither call reads outside the
\* buffer.
C32_LineLocator ==
    /\ pc = "find_done"
          => LET after == {o \in current..(End - 1) : data[o + 1] = NL}
             IN  next = (IF after = {} THEN End ELSE SetMin(after) + 1)
    /\ pc = "rfind_done"
          => next = SetMax({b \in RecordBoundaries : b < current})
    /\ pc \in {"find_done", "rfind_done"} => (0 <= next /\ next <= End)
    /\ pc \in {"find", "rfind", "find_done", "rfind_done"}
          => Reads \subseteq 0..(End - 1)

\* C32 witness: rfind was called at a record boundary inside the buffer
\* and returned the boundary before it, which is not the buffer start
C32_Witness ==
    /\ pc = "rfind_done"
    /\ current < End
    /\ data[current] = NL
    /\ 0 < next /\ next < current
====
